---- MODULE Spec2Model ----
(***************************************************************************)
(* Histogram matching (src/src/histmatch.rs): histogram -> cdf -> equalize *)
(* -> mapping -> apply -> combine, per colour channel.                     *)
(*                                                                         *)
(* Representation choices.                                                 *)
(*  - A Vec<u8> of samples is held run-length encoded: a sequence of runs  *)
(*    [s |-> sample, n |-> count], n consecutive equal samples s.  A loop  *)
(*    over the pixel index j + i*width visits the runs in order and        *)
(*    executes its body n times for a run.  This lets an image hold more   *)
(*    than 2^24 pixels, the point where f32 counters stop being exact.     *)
(*  - A [T; 256] array is a function on 0..255.                            *)
(*  - An f32 that holds a non-negative whole number is that Int.  An f32   *)
(*    in [0,1] or NaN (a normalized cdf entry) is a record                 *)
(*    [nan, m, e] with value m / 2^e, m < 2^24 + 1; arithmetic rounds to   *)
(*    nearest, ties to even, on a 24-bit significand, as IEEE-754 does.    *)
(*  - A u32 difference that may have wrapped is a pair <<hi, lo>> of       *)
(*    16-bit halves (2^32 does not fit the model checker's integers).      *)
(***************************************************************************)
EXTENDS Integers, Sequences, FiniteSets, TLC

\* ---------------------------------------------------------------- bounds
\* longest short run of equal pixels in an input image
MaxRunLen == 2
\* number of steps into which the key range 0..255 is cut for the arrays
\* handed directly to mapping
MaxLevels == 3

\* ------------------------------------------------------------- constants
\* const L: u32 = 256 (the number of pixel levels / array length)
L == 256
\* the scale factor of equalize, 255.0
Scale == 255
\* the fallback index of mapping, unwrap_or((&0, &255)).1
DefaultIndex == 255
\* significand width of f32
F32Bits == 24

Index == 0 .. (L - 1)
ChannelSet == {"r", "g", "b"}

RECURSIVE TwoPow(_)
TwoPow(k) == IF k = 0 THEN 1 ELSE 2 * TwoPow(k - 1)

\* 2^24: from here on f32 cannot tell x from x + 1
F32Exact == TwoPow(F32Bits)

\* a 0-based array from a 1-based sequence of length 256
ArrayOf(seq) == [i \in Index |-> seq[i + 1]]

\* the values an array holds
Range(arr) == {arr[i] : i \in DOMAIN arr}

\* f itself, held as an explicit table of its values instead of as a rule
\* (so that each value is worked out once, however often it is read)
Table(f) == f @@ [k \in {} |-> 0]

\* ---------------------------------------------------------- f32 arithmetic
\* round a quotient q with remainder rem (out of unit) half-to-even
RoundHalfEven(q, rem, unit) ==
    IF 2 * rem > unit THEN q + 1
    ELSE IF 2 * rem < unit THEN q
    ELSE IF q % 2 = 1 THEN q + 1 ELSE q

RECURSIVE ExcessBits(_, _)
\* number of bits by which the whole number s exceeds 24 bits
ExcessBits(s, k) == IF s < TwoPow(F32Bits + k) THEN k ELSE ExcessBits(s, k + 1)

\* the f32 nearest to the whole number s
F32RoundInt(s) ==
    IF s < F32Exact THEN s
    ELSE LET k == ExcessBits(s, 0)
             u == TwoPow(k)
         IN  RoundHalfEven(s \div u, s % u, u) * u

\* a + b in f32, both whole numbers
F32Add(a, b) == F32RoundInt(a + b)

\* x += 1. executed n times on a counter x <= 2^24: exact until 2^24, where
\* 2^24 + 1 is a tie that rounds back to the even 2^24 and the counter sticks
F32AddOnes(x, n) ==
    IF n = 0 THEN x
    ELSE IF x + n <= F32Exact THEN x + n
    ELSE F32Exact

NaN == [nan |-> TRUE, m |-> 0, e |-> 0]
F32Zero == [nan |-> FALSE, m |-> 0, e |-> 0]

RECURSIVE NormShift(_, _, _)
\* least k with c * 2^k >= n
NormShift(c, n, k) == IF c >= n THEN k ELSE NormShift(2 * c, n, k + 1)

RECURSIVE DivBits(_, _, _, _)
\* long division: bits more quotient bits of rem / n appended to m;
\* yields <<m, rem>>
DivBits(m, rem, n, bits) ==
    IF bits = 0 THEN <<m, rem>>
    ELSE IF 2 * rem >= n THEN DivBits(2 * m + 1, 2 * rem - n, n, bits - 1)
    ELSE DivBits(2 * m, 2 * rem, n, bits - 1)

\* c / n in f32 for whole numbers 0 <= c <= n
F32Div(c, n) ==
    IF n = 0 THEN NaN
    ELSE IF c = 0 THEN F32Zero
    ELSE LET k  == NormShift(c, n, 0)
             c1 == c * TwoPow(k)
             d  == DivBits(1, c1 - n, n, F32Bits - 1)
             m  == RoundHalfEven(d[1], d[2], n)
         IN  IF m = F32Exact
             THEN [nan |-> FALSE, m |-> m \div 2, e |-> F32Bits - 2 + k]
             ELSE [nan |-> FALSE, m |-> m, e |-> F32Bits - 1 + k]

\* (x * 255.0).ceil() as u32, for x in [0,1] or NaN.  The product 255 * m
\* has 31 or 32 bits; it is formed in 8-bit pieces and rounded to 24 bits.
\* A NaN stays NaN through * and ceil, and `as u32` turns it into 0.
\* (x.e >= 23 for every quotient F32Div yields, so the rounded product
\* r * 2^s / 2^e has d = e - s > 0 fraction bits.)
CeilScaled(x) ==
    IF x.nan THEN 0
    ELSE IF x.m = 0 THEN 0
    ELSE LET a    == x.m \div 256
             b    == x.m % 256
             q7   == Scale * a * 2 + (Scale * b) \div 128
             rem7 == (Scale * b) % 128
             wide == q7 >= F32Exact
             s    == IF wide THEN 8 ELSE 7
             q    == IF wide THEN q7 \div 2 ELSE q7
             rem  == IF wide THEN (q7 % 2) * 128 + rem7 ELSE rem7
             r    == RoundHalfEven(q, rem, TwoPow(s))
             d    == x.e - s
         IN  IF d > F32Bits THEN 1
             ELSE (r + TwoPow(d) - 1) \div TwoPow(d)

\* ---------------------------------------------------------- u32 arithmetic
Half == TwoPow(16)

\* a - b in u32 with wrap-around, for a, b < 2^16, as <<hi, lo>>
WrappingSub(a, b) ==
    IF a >= b THEN <<0, a - b>> ELSE <<Half - 1, Half + a - b>>

\* x <= y on <<hi, lo>> pairs
U32Le(x, y) == x[1] < y[1] \/ (x[1] = y[1] /\ x[2] <= y[2])

\* ------------------------------------------------------------------ images
RECURSIVE TotalLen(_)
\* number of samples of a run-length encoded vector
TotalLen(v) == IF v = <<>> THEN 0 ELSE Head(v).n + TotalLen(Tail(v))

Proj(runs, c) == [k \in 1 .. Len(runs) |-> [s |-> runs[k].px[c], n |-> runs[k].n]]

\* struct ImageChannels, from a sequence of runs of equal pixels
ImageChannels(runs, w, h) ==
    [r |-> Proj(runs, 1), g |-> Proj(runs, 2), b |-> Proj(runs, 3),
     width |-> w, height |-> h]

\* ImageChannels::get_channel
ImgGetChannel(img, channel) ==
    CASE channel = "r" -> img.r
      [] channel = "g" -> img.g
      [] channel = "b" -> img.b

\* ---------------------------------------------------------------- histogram
ZeroHist == [k \in Index |-> 0]

RECURSIVE Accumulate(_, _, _)
\* histogram[v[idx] as usize] += 1. over the samples of v, from run k on
Accumulate(v, k, hist) ==
    IF k > Len(v) THEN hist
    ELSE Accumulate(v, k + 1, [hist EXCEPT ![v[k].s] = F32AddOnes(@, v[k].n)])

\* impl From<&ImageChannels> for ChannelsHistogram
ChannelsHistogramFrom(img) ==
    LET histogram_r == Accumulate(ImgGetChannel(img, "r"), 1, ZeroHist)
        histogram_g == Accumulate(ImgGetChannel(img, "g"), 1, ZeroHist)
        histogram_b == Accumulate(ImgGetChannel(img, "b"), 1, ZeroHist)
    IN  [hist |-> <<histogram_r, histogram_b, histogram_g>>,
         width |-> img.width, height |-> img.height]

\* ChannelsHistogram::get_channel
HistGetChannel(h, channel) ==
    CASE channel = "r" -> h.hist[1]
      [] channel = "g" -> h.hist[2]
      [] channel = "b" -> h.hist[3]

\* ---------------------------------------------------------------------- cdf
RECURSIVE CumRange(_, _, _, _)
\* for i in lo..hi { cumsum.push(cumsum[i-1] + arr[i]) } with prev =
\* cumsum[lo-1]: the entries pushed, the range done as its lower half
\* followed by its upper half
CumRange(arr, lo, hi, prev) ==
    IF hi - lo = 1 THEN <<F32Add(prev, arr[lo])>>
    ELSE LET mid == (lo + hi) \div 2
             low == CumRange(arr, lo, mid, prev)
         IN  low \o CumRange(arr, mid, hi, low[Len(low)])

\* cumwantsome that pushes arr[i] instead of cumsum[i-1] + arr[i]
cumwantsome_nosum(arr) == arr

\* fn cumwantsome: the running sum, in f32
cumwantsome(arr) == ArrayOf(<<arr[0]>> \o CumRange(arr, 1, L, arr[0]))

\* fn cdf: the running sum divided by its last entry (equal running sums
\* give equal quotients: each distinct one is divided once)
cdf(img) ==
    LET cs     == cumwantsome(img)
        number == cs[L - 1]
        x      == Table([c \in Range(cs) |-> F32Div(c, number)])
    IN  [i \in Index |-> x[cs[i]]]

\* fn equalize (each distinct entry is scaled once)
equalize(img) ==
    LET level == Table([x \in Range(img) |-> CeilScaled(x)])
    IN  [i \in Index |-> level[img[i]]]

\* ------------------------------------------------------------------ mapping
EmptyMap == [k \in {} |-> 0]

\* BTreeMap::insert: a later insertion under a key replaces the earlier one
\* (f @@ g takes f where both are defined)
Insert(lookup, key, value) == (key :> value) @@ lookup

RECURSIVE InsertRange_keepfirst(_, _, _)
\* InsertRange with an insert that keeps the entry a key already has
InsertRange_keepfirst(ref_arr, lo, hi) ==
    IF hi - lo = 1 THEN Insert(EmptyMap, ref_arr[lo], lo)
    ELSE LET mid == (lo + hi) \div 2
         IN  InsertRange_keepfirst(ref_arr, lo, mid)
                @@ InsertRange_keepfirst(ref_arr, mid, hi)

RECURSIVE InsertRange(_, _, _)
\* the map that for n in lo..hi { lookup.insert(ref_img[n], n) } builds from
\* the empty map: the insertions of the upper half of the range come after,
\* and so replace, those of the lower half
InsertRange(ref_arr, lo, hi) ==
    IF hi - lo = 1 THEN Insert(EmptyMap, ref_arr[lo], lo)
    ELSE LET mid == (lo + hi) \div 2
         IN  InsertRange(ref_arr, mid, hi) @@ InsertRange(ref_arr, lo, mid)

\* for (n, i) in ref_img.into_iter().enumerate() { lookup.insert(*i, n) }
BuildLookup(ref_arr) == InsertRange(ref_arr, 0, L)

SetMin(S) == CHOOSE x \in S : \A y \in S : x <= y
SetMax(S) == CHOOSE x \in S : \A y \in S : x >= y

\* lookup.range(key..), lookup.range(..key): the keys in range
RangeFrom(lookup, key) == {k \in DOMAIN lookup : k >= key}
RangeBelow(lookup, key) == {k \in DOMAIN lookup : k < key}

\* UpperOf that falls back to the index under key 0
UpperOf_keyzero(lookup, key) ==
    LET range == RangeFrom(lookup, key)
    IN  IF range # {} THEN lookup[SetMin(range)]
        ELSE IF 0 \in DOMAIN lookup THEN lookup[0] ELSE DefaultIndex

\* lookup.range(key..).next() ... unwrap_or((&0, &255)).1
UpperOf(lookup, key) ==
    LET range == RangeFrom(lookup, key)
    IN  IF range = {} THEN DefaultIndex ELSE lookup[SetMin(range)]

\* lookup.range(..key).rev().next() ... unwrap_or((&0, &255)).1
LowerOf(lookup, key) ==
    LET range == RangeBelow(lookup, key)
    IN  IF range = {} THEN DefaultIndex ELSE lookup[SetMax(range)]

\* if (upper - key) <= (lower - key) { upper } else { lower }, then `as u8`
Pick(upper, lower, key) ==
    IF U32Le(WrappingSub(upper, key), WrappingSub(lower, key))
    THEN upper % L ELSE lower % L

\* one iteration of the second loop of mapping, which depends on key only
Iteration(lookup, key) ==
    LET upper == UpperOf(lookup, key)
        lower == LowerOf(lookup, key)
    IN  [upper |-> upper, lower |-> lower,
         under |-> upper < key \/ lower < key,
         ans   |-> Pick(upper, lower, key)]

\* fn mapping.  checks: the build has overflow checks on (debug profile), so
\* a u32 subtraction below zero panics; without them it wraps.
mapping(src_arr, ref_arr, checks) ==
    LET lookup == BuildLookup(ref_arr)
        it     == Table([key \in Range(src_arr) |-> Iteration(lookup, key)])
        under  == \E key \in DOMAIN it : it[key].under
    IN  [lookup    |-> lookup,
         underflow |-> under,
         panic     |-> checks /\ under,
         cand      |-> [i \in Index |-> [upper |-> it[src_arr[i]].upper,
                                         lower |-> it[src_arr[i]].lower]],
         mapped    |-> [i \in Index |-> it[src_arr[i]].ans]]

\* -------------------------------------------------------- apply and combine
\* fn apply: result[i] = hist[img[i]]
apply(hist, img) == [k \in 1 .. Len(img) |-> [s |-> hist[img[k].s], n |-> img[k].n]]

\* fn combine: the pixels [r, g, b], in order
combine(r, g, b) ==
    [k \in 1 .. Len(r) |-> [px |-> <<r[k].s, g[k].s, b[k].s>>, n |-> r[k].n]]

\* ------------------------------------------------------------------- state
VARIABLES
    overflow_checks,    \* the build profile: TRUE = u32 overflow panics
    src_img_channels,   \* ImageChannels of the source
    ref_img_channels,   \* ImageChannels of the reference
    src_histo,          \* ChannelsHistogram of the source
    ref_histo,          \* ChannelsHistogram of the reference
    src_cdf,            \* src_cdf_r, src_cdf_g, src_cdf_b
    ref_cdf,            \* ref_cdf_r, ref_cdf_g, ref_cdf_b
    lookup,             \* the BTreeMap each call of mapping built
    cand,               \* upper and lower of each iteration of each call
    underflow,          \* some u32 subtraction in mapping went below zero
    mapped,             \* mapped_r, mapped_g, mapped_b
    rgb,                \* the combined output pixels
    error,              \* how the run ended, if it did not end well
    pc                  \* position in match_histogram

vars == <<overflow_checks, src_img_channels, ref_img_channels, src_histo,
          ref_histo, src_cdf, ref_cdf, lookup, cand, underflow, mapped, rgb,
          error, pc>>

None == <<>>

\* ------------------------------------------------------------------ inputs
Pixels == {<<0, 0, 0>>, <<1, 0, 255>>, <<255, 255, 255>>}
ShortRuns == [px : Pixels, n : 1 .. MaxRunLen]
LongRuns == [px : Pixels, n : {F32Exact + 1}]
LastRuns == [px : Pixels, n : {1}]
RunSeqs ==
    {<<>>} \cup {<<a>> : a \in ShortRuns \cup LongRuns}
           \cup {<<a, b>> : a \in ShortRuns, b \in LastRuns}

RECURSIVE PixelCount(_)
PixelCount(runs) == IF runs = <<>> THEN 0 ELSE Head(runs).n + PixelCount(Tail(runs))

\* width and height of the image that holds the runs: width * height is the
\* number of pixels
Width(runs) ==
    LET t == PixelCount(runs) IN IF t % 4 = 0 THEN t \div 2 ELSE t
Height(runs) ==
    LET t == PixelCount(runs) IN IF t = 0 THEN 0 ELSE IF t % 4 = 0 THEN 2 ELSE 1

Images == {ImageChannels(runs, Width(runs), Height(runs)) : runs \in RunSeqs}

\* arrays handed directly to mapping: two plateaus, rising or falling
Levels == {(255 * i) \div MaxLevels : i \in 0 .. MaxLevels}
Breaks == {1, 200}
TwoStep(v1, v2, brk) == [n \in Index |-> IF n < brk THEN v1 ELSE v2]
Arrays == {TwoStep(v1, v2, brk) : v1 \in Levels, v2 \in Levels, brk \in Breaks}

\* ------------------------------------------------------------------ actions
\* match_histogram after the two images were opened and split into channels
Init ==
    /\ overflow_checks \in BOOLEAN
    /\ src_img_channels \in Images
    /\ ref_img_channels \in Images
    /\ src_histo = None /\ ref_histo = None
    /\ src_cdf = None /\ ref_cdf = None
    /\ lookup = None /\ cand = None /\ mapped = None /\ rgb = None
    /\ underflow = FALSE
    /\ error = "none"
    /\ pc = "channels"

\* let ref_histo = ...; let src_histo = ...
Histograms ==
    /\ pc = "channels"
    /\ ref_histo' = ChannelsHistogramFrom(ref_img_channels)
    /\ src_histo' = ChannelsHistogramFrom(src_img_channels)
    /\ pc' = "histo"
    /\ UNCHANGED <<overflow_checks, src_img_channels, ref_img_channels,
                   src_cdf, ref_cdf, lookup, cand, underflow, mapped, rgb,
                   error>>

\* let ref_cdf_r = equalize(cdf(&ref_histo.get_channel('r'))); ...
Cdfs ==
    /\ pc = "histo"
    /\ ref_cdf' = [c \in ChannelSet |-> equalize(cdf(HistGetChannel(ref_histo, c)))]
    /\ src_cdf' = [c \in ChannelSet |-> equalize(cdf(HistGetChannel(src_histo, c)))]
    /\ pc' = "cdf"
    /\ UNCHANGED <<overflow_checks, src_img_channels, ref_img_channels,
                   src_histo, ref_histo, lookup, cand, underflow, mapped, rgb,
                   error>>

\* let mapped_r = mapping(&src_cdf_r, &ref_cdf_r); ... : the three calls; a
\* panic in any of them ends the run
Mappings ==
    /\ pc = "cdf"
    /\ LET m == [c \in ChannelSet |->
                    mapping(src_cdf[c], ref_cdf[c], overflow_checks)]
       IN  /\ underflow' = (\E c \in ChannelSet : m[c].underflow)
           /\ IF \E c \in ChannelSet : m[c].panic
              THEN /\ pc' = "panic"
                   /\ error' = "panic"
                   /\ UNCHANGED <<lookup, cand, mapped>>
              ELSE /\ pc' = "mapped"
                   /\ lookup' = [c \in ChannelSet |-> m[c].lookup]
                   /\ cand' = [c \in ChannelSet |-> m[c].cand]
                   /\ mapped' = [c \in ChannelSet |-> m[c].mapped]
                   /\ UNCHANGED error
    /\ UNCHANGED <<overflow_checks, src_img_channels, ref_img_channels,
                   src_histo, ref_histo, src_cdf, ref_cdf, rgb>>

\* let r = apply(&mapped_r, ...)...; let rgb = combine(&r, &g, &b, ...)
ApplyCombine ==
    /\ pc = "mapped"
    /\ LET r == apply(mapped["r"], ImgGetChannel(src_img_channels, "r"))
           g == apply(mapped["g"], ImgGetChannel(src_img_channels, "g"))
           b == apply(mapped["b"], ImgGetChannel(src_img_channels, "b"))
       IN  rgb' = combine(r, g, b)
    /\ pc' = "done"
    /\ UNCHANGED <<overflow_checks, src_img_channels, ref_img_channels,
                   src_histo, ref_histo, src_cdf, ref_cdf, lookup, cand,
                   underflow, mapped, error>>

Next == Histograms \/ Cdfs \/ Mappings \/ ApplyCombine

Spec == Init /\ [][Next]_vars

\* mapping called on its own, on arrays that need not come from an image
EmptyImage == ImageChannels(<<>>, 0, 0)

InitMap ==
    /\ overflow_checks \in BOOLEAN
    /\ src_img_channels = EmptyImage
    /\ ref_img_channels = EmptyImage
    /\ src_histo = None /\ ref_histo = None
    /\ \E a \in Arrays : src_cdf = [c \in ChannelSet |-> a]
    /\ \E a \in Arrays : ref_cdf = [c \in ChannelSet |-> a]
    /\ lookup = None /\ cand = None /\ mapped = None /\ rgb = None
    /\ underflow = FALSE
    /\ error = "none"
    /\ pc = "cdf"

NextMap == Mappings

SpecMap == InitMap /\ [][NextMap]_vars

\* ============================================================== properties
Mapped == pc \in {"mapped", "done"}
PastCdf == pc \in {"cdf", "mapped", "panic", "done"}
PastHisto == pc # "channels"

NonEmpty(img) == TotalLen(ImgGetChannel(img, "r")) > 0

Run(px, n) == [px |-> px, n |-> n]

\* ---------------------------------------------------------------------- C1
C1Source == ImageChannels(<<Run(<<0, 0, 0>>, 1), Run(<<255, 255, 255>>, 1)>>, 2, 1)
C1Reference == ImageChannels(<<Run(<<0, 0, 0>>, 2)>>, 2, 1)
C1Scenario == src_img_channels = C1Source /\ ref_img_channels = C1Reference

\* C1: matching the 2x1 source [(0,0,0),(255,255,255)] against the 2x1
\* reference [(0,0,0),(0,0,0)] maps the source values 0 and 255 to 0 in every
\* channel, and the output is [(0,0,0),(0,0,0)].
C1_AllZero ==
    C1Scenario =>
        /\ pc # "panic"
        /\ Mapped => \A c \in ChannelSet : mapped[c][0] = 0 /\ mapped[c][255] = 0
        /\ pc = "done" => rgb = <<Run(<<0, 0, 0>>, 1), Run(<<0, 0, 0>>, 1)>>

\* ---------------------------------------------------------------------- C2
\* C2: mapping is total: it ends without an error, no subtraction of it goes
\* below zero in u32, and it returns 256 entries, each in 0..255.
C2_MappingTotal ==
    pc \in {"mapped", "panic", "done"} =>
        /\ error = "none"
        /\ ~underflow
        /\ \A c \in ChannelSet :
              /\ DOMAIN mapped[c] = Index
              /\ \A v \in Index : mapped[c][v] \in 0 .. 255

\* ---------------------------------------------------------------------- C3
\* the index under the key nearest to key, the upper one on a tie
NearestByKey(lk, key) ==
    LET up == SetMin(RangeFrom(lk, key))
        lo == SetMax(RangeBelow(lk, key))
    IN  IF up - key <= key - lo THEN lk[up] ELSE lk[lo]

\* C3: where the reference map holds both a key >= key and a key < key,
\* table[v] is the index stored under the one of the two that is nearer to
\* key = sourceQuantizedCDF[v], the upper one when they are equally near.
C3_NearestKey ==
    Mapped =>
        \A c \in ChannelSet : \A v \in Index :
            (/\ RangeFrom(lookup[c], src_cdf[c][v]) # {}
             /\ RangeBelow(lookup[c], src_cdf[c][v]) # {})
            => mapped[c][v] = NearestByKey(lookup[c], src_cdf[c][v])

\* ---------------------------------------------------------------------- C4
RECURSIVE CountSamples(_, _)
\* the number of samples of v that equal k
CountSamples(v, k) ==
    IF v = <<>> THEN 0
    ELSE (IF Head(v).s = k THEN Head(v).n ELSE 0) + CountSamples(Tail(v), k)

CountsOwnChannel(histo, img) ==
    \A c \in ChannelSet : \A k \in Index :
        HistGetChannel(histo, c)[k] = CountSamples(ImgGetChannel(img, c), k)

\* every counter of the image is within the exact range of f32
Countable(img) == TotalLen(ImgGetChannel(img, "r")) <= F32Exact

\* C4: for each channel c, bin k of get_channel(c) is the number of pixels
\* whose c sample is k (stated for the images of at most 2^24 pixels, for
\* which the f32 counters are exact).
C4_OwnChannel ==
    PastHisto =>
        /\ Countable(src_img_channels) => CountsOwnChannel(src_histo, src_img_channels)
        /\ Countable(ref_img_channels) => CountsOwnChannel(ref_histo, ref_img_channels)

\* ---------------------------------------------------------------------- C5
\* C5: when the source or the reference has no pixels, the run reports an
\* EmptyImage error instead of going on to quantized CDFs and a table.
C5_EmptyImageReported ==
    (PastCdf /\ (~NonEmpty(src_img_channels) \/ ~NonEmpty(ref_img_channels)))
        => error = "EmptyImage"

\* ---------------------------------------------------------------------- C6
\* C6: when mapping gets the same array Q as source and as reference, every
\* table entry w = table[v] has Q[w] = Q[v].
C6_SelfMatch ==
    Mapped =>
        \A c \in ChannelSet :
            src_cdf[c] = ref_cdf[c] =>
                \A v \in Index : ref_cdf[c][mapped[c][v]] = src_cdf[c][v]

\* ---------------------------------------------------------------------- C7
QuantizedOk(q) ==
    /\ DOMAIN q = Index
    /\ \A i \in Index : q[i] \in 0 .. 255
    /\ \A i \in Index : i > 0 => q[i - 1] <= q[i]
    /\ q[L - 1] = 255

\* C7: for a non-empty image and every channel, the quantized CDF is a
\* non-decreasing sequence of 256 integers in 0..255 that ends in 255.
C7_QuantizedCdf ==
    PastCdf =>
        /\ NonEmpty(src_img_channels) => \A c \in ChannelSet : QuantizedOk(src_cdf[c])
        /\ NonEmpty(ref_img_channels) => \A c \in ChannelSet : QuantizedOk(ref_cdf[c])

\* a source of three pixels of two values (plateaus at 170 and 255) and a
\* reference of more than 2^24 equal pixels
C7_Witness ==
    /\ pc = "cdf"
    /\ src_cdf["r"][0] = 170 /\ src_cdf["r"][254] = 170 /\ src_cdf["r"][255] = 255
    /\ TotalLen(ImgGetChannel(ref_img_channels, "b")) > F32Exact
    /\ ref_cdf["b"][254] = 0 /\ ref_cdf["b"][255] = 255

\* ---------------------------------------------------------------------- C8
RECURSIVE SumRange(_, _, _)
\* hist[lo] + ... + hist[hi - 1]
SumRange(hist, lo, hi) ==
    IF hi - lo = 1 THEN hist[lo]
    ELSE LET mid == (lo + hi) \div 2
         IN  SumRange(hist, lo, mid) + SumRange(hist, mid, hi)

Conserved(histo) ==
    \A c \in ChannelSet :
        SumRange(HistGetChannel(histo, c), 0, L) = histo.width * histo.height

\* C8: the 256 bins of each of the three histograms sum to width * height.
C8_Conservation == PastHisto => Conserved(src_histo) /\ Conserved(ref_histo)

\* ---------------------------------------------------------------------- C9
NoUpper(c, v) == RangeFrom(lookup[c], src_cdf[c][v]) = {}
NoLower(c, v) == RangeBelow(lookup[c], src_cdf[c][v]) = {}

C10_LastIndexWins ==
    pc = "mapped" =>
        \A c \in ChannelSet :
            /\ DOMAIN lookup[c] = Range(ref_cdf[c])
            /\ \A k \in DOMAIN lookup[c] :
                  lookup[c][k] = SetMax({n \in Index : ref_cdf[c][n] = k})

\* a reference with two plateaus, the later one under the smaller key
C10_Witness ==
    /\ pc = "mapped"
    /\ ref_cdf["r"][0] = 255 /\ ref_cdf["r"][1] = 0 /\ ref_cdf["r"][255] = 0
    /\ lookup["r"][0] = 255 /\ lookup["r"][255] = 0

====
